---- MODULE Spec2Model ----
(***************************************************************************)
(* The exchange gateway of backend/main.py: GET /get (get_file) and        *)
(* POST /post (upload_file) over an SSM parameter store (Lock, Tracked     *)
(* Filename, Password) and one S3 bucket.  Each request is a process that  *)
(* advances one external round trip at a time, so requests interleave at   *)
(* exactly the points where the code awaits the stores.                    *)
(***************************************************************************)
EXTENDS Naturals, FiniteSets, Sequences, TLC

\* ---------------------------------------------------------------- bounds
\* Total number of requests started in one behaviour.
MaxRequests == 2

\* Request slots served concurrently by the process.
Procs == {1, 2}

\* ------------------------------------------------------------- constants
LOCK_VALUE_UNLOCKED == "unlocked"

\* Python's None: a parameter that is absent, a field not set.
None == "<None>"

\* The three parameter names read from the environment.
SSM_PARAMETER_NAME == "lock"
SSM_FILENAME_PARAMETER_NAME == "filename"
SSM_PASSWORD_PARAMETER_NAME == "password"

\* The secret provisioned in the parameter store.
StoredPassword == "secret"

\* Inputs of the requests.  who_are_you is any string of at most 20
\* characters, so the sentinel itself is one of them; a multipart filename is
\* any string, the empty one and "init" included.
Identities == {"alice", "bob", LOCK_VALUE_UNLOCKED}
Filenames == {"", "init", "save.dat"}
Contents == {"B1", "B2"}

\* GET /get?who_are_you=..&password=..
GetRequests ==
  {[who_are_you |-> w, password |-> StoredPassword] : w \in Identities}
    \cup {[who_are_you |-> "alice", password |-> "wrong"]}

\* POST /post?who_are_you=..&password=.. with the multipart file
PostRequests ==
  {[who_are_you |-> "bob", password |-> StoredPassword, filename |-> "save.dat", content |-> c] :
      c \in Contents}
    \cup {[who_are_you |-> "alice", password |-> StoredPassword, filename |-> "save.dat", content |-> "B2"]}
    \cup {[who_are_you |-> "bob", password |-> StoredPassword, filename |-> f, content |-> "B2"] :
      f \in {"", "init"}}
    \cup {[who_are_you |-> "bob", password |-> "wrong", filename |-> f, content |-> "B2"] :
      f \in {"", "save.dat"}}

\* S3 keys that can ever exist, and the marker of an absent key.
Keys == Filenames \ {""}
NoSuchKey == "<NoSuchKey>"

VARIABLES
  available,   \* s3_client and ssm_client were created at import
  ssm,         \* the parameter store: name -> value, or None when absent
  s3,          \* the bucket: key -> content, or NoSuchKey
  req,         \* per slot: the request being served and its locals
  started,     \* number of requests started so far
  lockWriter,  \* seq of the request whose put of the Lock the store accepted last, 0 if none
  holder       \* who of the last successful download since the last successful upload

vars == <<available, ssm, s3, req, started, lockWriter, holder>>

\* ------------------------------------------------------------- responses
NoResponse == [status |-> 0, detail |-> None, lock |-> None, body |-> None, filename |-> None]

\* raise HTTPException(status_code=status, detail=detail)
HTTPException(status, detail) ==
  [status |-> status, detail |-> detail, lock |-> None, body |-> None, filename |-> None]

\* the 409 of get_file, whose detail embeds current_lock_value
LockedResponse(current_lock_value) ==
  [status |-> 409, detail |-> "Cannot download as save is locked by",
   lock |-> current_lock_value, body |-> None, filename |-> None]

\* FileResponse(path=local_path) with the filename argument forgotten.
FileResponse_unnamed(local_file, filename) ==
  [status |-> 200, detail |-> None, lock |-> None, body |-> local_file, filename |-> None]

\* FileResponse(path=local_path, filename=filename_to_download)
FileResponse(local_file, filename) ==
  [status |-> 200, detail |-> None, lock |-> None, body |-> local_file, filename |-> filename]

\* the JSON acknowledgment of upload_file
UploadedResponse ==
  [status |-> 200, detail |-> "uploaded successfully", lock |-> None, body |-> None, filename |-> None]

\* ---------------------------------------------------------------- stores
\* get_ssm_parameter: the value, None when the parameter is absent (or there is
\* no client), or HTTPException(500) on any other ClientError (ok = FALSE).
get_ssm_parameter(parameter_name, ok) ==
  IF ~available THEN [raised |-> FALSE, value |-> None]
  ELSE IF ok THEN [raised |-> FALSE, value |-> ssm[parameter_name]]
  ELSE [raised |-> TRUE, value |-> None]

\* set_ssm_parameter called with overwrite=False: the put of a parameter that
\* exists is refused (ParameterAlreadyExists), which the function reports as True.
set_ssm_parameter_no_overwrite(parameter_name, value, ok) ==
  IF ~available THEN [raised |-> FALSE, ret |-> FALSE, ssm |-> ssm]
  ELSE IF ok
    THEN [raised |-> FALSE, ret |-> TRUE,
          ssm |-> IF ssm[parameter_name] = None
                    THEN [ssm EXCEPT ![parameter_name] = value] ELSE ssm]
    ELSE [raised |-> TRUE, ret |-> FALSE, ssm |-> ssm]

\* set_ssm_parameter that logs the ClientError and returns True instead of raising.
set_ssm_parameter_swallow(parameter_name, value, ok) ==
  IF ~available THEN [raised |-> FALSE, ret |-> FALSE, ssm |-> ssm]
  ELSE IF ok
    THEN [raised |-> FALSE, ret |-> TRUE, ssm |-> [ssm EXCEPT ![parameter_name] = value]]
    ELSE [raised |-> FALSE, ret |-> TRUE, ssm |-> ssm]

\* set_ssm_parameter with overwrite=True: True after the put, False with no
\* client, and HTTPException(500) on a ClientError (ok = FALSE); the store is
\* changed only by a put that succeeded.
set_ssm_parameter(parameter_name, value, ok) ==
  IF ~available THEN [raised |-> FALSE, ret |-> FALSE, ssm |-> ssm]
  ELSE IF ok
    THEN [raised |-> FALSE, ret |-> TRUE, ssm |-> [ssm EXCEPT ![parameter_name] = value]]
    ELSE [raised |-> TRUE, ret |-> FALSE, ssm |-> ssm]

\* The password test left out.
PasswordNotChecked(app_password, password) == TRUE

\* `app_password != password` is the 403 of both handlers.
PasswordValid(app_password, password) == app_password = password

\* A missing Lock taken for an unlocked one.
DownloadAllowed_or_missing(current_lock_value) ==
  current_lock_value = LOCK_VALUE_UNLOCKED \/ current_lock_value = None

\* get_file: `if current_lock_value == LOCK_VALUE_UNLOCKED`
DownloadAllowed(current_lock_value) == current_lock_value = LOCK_VALUE_UNLOCKED

\* The upload gate left out.
UploadAlwaysAllowed(current_lock_value) == TRUE

\* upload_file: `if current_lock_value != LOCK_VALUE_UNLOCKED`
UploadAllowed(current_lock_value) == current_lock_value # LOCK_VALUE_UNLOCKED

\* ---------------------------------------------------------------- slots
IdleRequest ==
  [op |-> "none", pc |-> "idle", seq |-> 0,
   who_are_you |-> None, password |-> None, filename |-> None, content |-> None,
   current_lock_value |-> None, filename_to_download |-> None, local_file |-> None,
   temp_dir |-> "none", closes |-> 0,
   reads |-> {}, attempted |-> {}, wrote |-> {}, failed |-> {},
   holder0 |-> None, lock_seen |-> 0,
   response |-> NoResponse]

Free(p) == req[p].pc \in {"idle", "done"}

\* The request of slot p ends with response r: the handler returns; r2
\* carries what the request read and did.
Finish(p, r2, r) ==
  /\ req' = [req EXCEPT ![p] = [r2 EXCEPT !.pc = "done", !.response = r, !.local_file = None]]
  /\ holder' = IF r2.op = "get" /\ r.status = 200 THEN r2.who_are_you
               ELSE IF r2.op = "post" /\ r.status = 200 THEN None
               ELSE holder

Continue(p, r2, pc) ==
  /\ req' = [req EXCEPT ![p] = [r2 EXCEPT !.pc = pc]]
  /\ UNCHANGED holder

\* What is provisioned out of band before first use: the Tracked Filename
\* absent, the sentinel, or a name whose blob is or is not in the bucket.
Provisioned ==
  {[filename |-> None, blob |-> NoSuchKey], [filename |-> "init", blob |-> NoSuchKey],
   [filename |-> "save.dat", blob |-> "B1"], [filename |-> "save.dat", blob |-> NoSuchKey]}

Init ==
  /\ available \in BOOLEAN
  /\ \E lock \in {None, LOCK_VALUE_UNLOCKED, "alice"}, pre \in Provisioned :
       /\ ssm = [n \in {SSM_PARAMETER_NAME, SSM_FILENAME_PARAMETER_NAME, SSM_PASSWORD_PARAMETER_NAME} |->
                  IF n = SSM_PARAMETER_NAME THEN lock
                  ELSE IF n = SSM_FILENAME_PARAMETER_NAME THEN pre.filename
                  ELSE StoredPassword]
       /\ s3 = [k \in Keys |-> IF k = "save.dat" THEN pre.blob ELSE NoSuchKey]
  /\ req = [p \in Procs |-> IdleRequest]
  /\ started = 0
  /\ lockWriter = 0
  /\ holder = None


\* ------------------------------------------------------------ GET /get
\* A request arrives (query parameters validated by the framework) and the
\* handler tests the clients (503).
GetArrives(p, budget) ==
  /\ Free(p)
  /\ started < budget
  /\ started' = started + 1
  /\ \E i \in GetRequests :
       LET r == [IdleRequest EXCEPT !.op = "get", !.seq = started + 1,
                                    !.who_are_you = i.who_are_you, !.password = i.password,
                                    !.holder0 = holder]
       IN IF ~available
            THEN Finish(p, r, HTTPException(503, "AWS service client not available."))
            ELSE Continue(p, r, "get_password")
  /\ UNCHANGED <<available, ssm, s3, lockWriter>>

GetBegin(p) == GetArrives(p, MaxRequests)

\* app_password = get_ssm_parameter(password); the 403 test.
GetPassword(p) ==
  /\ req[p].pc = "get_password"
  /\ \E ok \in BOOLEAN :
       LET g == get_ssm_parameter(SSM_PASSWORD_PARAMETER_NAME, ok)
           r == [req[p] EXCEPT !.reads = @ \cup {SSM_PASSWORD_PARAMETER_NAME},
                               !.failed = IF ok THEN @ ELSE @ \cup {SSM_PASSWORD_PARAMETER_NAME}]
       IN IF g.raised
            THEN Finish(p, r, HTTPException(500, "Error communicating with AWS SSM to get"))
          ELSE IF ~PasswordValid(g.value, r.password)
            THEN Finish(p, r, HTTPException(403, "Provided password not valid"))
          ELSE Continue(p, r, "get_lock")
  /\ UNCHANGED <<available, ssm, s3, started, lockWriter>>

\* current_lock_value = get_ssm_parameter(lock); the branch on "unlocked".
GetLock(p) ==
  /\ req[p].pc = "get_lock"
  /\ \E ok \in BOOLEAN :
       LET g == get_ssm_parameter(SSM_PARAMETER_NAME, ok)
           r == [req[p] EXCEPT !.reads = @ \cup {SSM_PARAMETER_NAME},
                               !.failed = IF ok THEN @ ELSE @ \cup {SSM_PARAMETER_NAME},
                               !.current_lock_value = g.value]
       IN IF g.raised
            THEN Finish(p, r, HTTPException(500, "Error communicating with AWS SSM to get"))
          ELSE IF DownloadAllowed(g.value)
            THEN Continue(p, r, "get_filename")
          ELSE Finish(p, r, LockedResponse(g.value))
  /\ UNCHANGED <<available, ssm, s3, started, lockWriter>>

\* The test without the "init" sentinel.
NoValidFilename_no_sentinel(filename_to_download) ==
  \/ filename_to_download = None
  \/ filename_to_download = ""

\* `not filename_to_download or filename_to_download == "init"`
NoValidFilename(filename_to_download) ==
  \/ filename_to_download = None
  \/ filename_to_download = ""
  \/ filename_to_download = "init"

\* filename_to_download = get_ssm_parameter(filename); 404 on the sentinel,
\* else the temporary directory is created.
GetFilename(p) ==
  /\ req[p].pc = "get_filename"
  /\ \E ok \in BOOLEAN :
       LET g == get_ssm_parameter(SSM_FILENAME_PARAMETER_NAME, ok)
           r == [req[p] EXCEPT !.reads = @ \cup {SSM_FILENAME_PARAMETER_NAME},
                               !.failed = IF ok THEN @ ELSE @ \cup {SSM_FILENAME_PARAMETER_NAME},
                               !.filename_to_download = g.value]
       IN IF g.raised
            THEN Finish(p, r, HTTPException(500, "Error communicating with AWS SSM to get"))
          ELSE IF NoValidFilename(g.value)
            THEN Finish(p, r, HTTPException(404, "No valid save filename found to download."))
          ELSE Continue(p, [r EXCEPT !.temp_dir = "live"], "get_s3")
  /\ UNCHANGED <<available, ssm, s3, started, lockWriter>>

\* background_tasks.add_task(clean_temp_dir, temp_dir)
add_task(r) == [r EXCEPT !.temp_dir = "scheduled"]

\* Every ClientError of the download answered with 500.
DownloadError_always_500(not_found) ==
  HTTPException(500, "Error downloading file from S3.")

\* `except ClientError`: "NoSuchKey" or "404" is answered 404, the rest 500.
DownloadError(not_found) ==
  IF not_found THEN HTTPException(404, "Save file not found in S3.")
  ELSE HTTPException(500, "Error downloading file from S3.")

\* s3_client.download_file and the `except ClientError` branch.
GetS3(p) ==
  /\ req[p].pc = "get_s3"
  /\ \E ok \in BOOLEAN :
       LET key == req[p].filename_to_download
           r == [req[p] EXCEPT !.reads = @ \cup {"s3"}]
       IN IF s3[key] = NoSuchKey \/ ~ok
            THEN Finish(p, add_task([r EXCEPT !.failed = @ \cup {"s3"}]),
                        DownloadError(s3[key] = NoSuchKey))
          ELSE Continue(p, [r EXCEPT !.local_file = s3[key]], "get_setlock")
  /\ UNCHANGED <<available, ssm, s3, started, lockWriter>>

\* set_ssm_parameter(lock, who_are_you) and the response that follows it.
GetSetLock(p) ==
  /\ req[p].pc = "get_setlock"
  /\ \E ok \in BOOLEAN :
       LET w == set_ssm_parameter(SSM_PARAMETER_NAME, req[p].who_are_you, ok)
           r == [req[p] EXCEPT !.attempted = @ \cup {SSM_PARAMETER_NAME},
                               !.wrote = IF ok THEN @ \cup {SSM_PARAMETER_NAME} ELSE @,
                               !.failed = IF ok THEN @ ELSE @ \cup {SSM_PARAMETER_NAME}]
       IN /\ ssm' = w.ssm
          /\ lockWriter' = IF ok THEN req[p].seq ELSE lockWriter
          /\ IF w.raised
               THEN Finish(p, r, HTTPException(500, "Error communicating with AWS SSM to set"))
             ELSE IF w.ret
               THEN Finish(p, add_task(r), FileResponse(r.local_file, r.filename_to_download))
             ELSE Finish(p, add_task(r), HTTPException(500, "Failed to update API lock after download."))
  /\ UNCHANGED <<available, s3, started>>

get_file(p) ==
  \/ GetBegin(p)
  \/ GetPassword(p)
  \/ GetLock(p)
  \/ GetFilename(p)
  \/ GetS3(p)
  \/ GetSetLock(p)

\* ----------------------------------------------------------- POST /post
\* await file.close()
close(r) == [r EXCEPT !.closes = @ + 1]

PostArrives(p, budget) ==
  /\ Free(p)
  /\ started < budget
  /\ started' = started + 1
  /\ \E i \in PostRequests :
       LET r == [IdleRequest EXCEPT !.op = "post", !.seq = started + 1,
                                    !.who_are_you = i.who_are_you, !.password = i.password,
                                    !.filename = i.filename, !.content = i.content]
       IN IF ~available
            THEN Finish(p, r, HTTPException(503, "AWS service client not available."))
            ELSE Continue(p, r, "post_password")
  /\ UNCHANGED <<available, ssm, s3, lockWriter>>

PostBegin(p) == PostArrives(p, MaxRequests)

\* The 400 test left out.
EmptyFilenameAccepted(filename) == FALSE

\* `if not file.filename`
EmptyFilename(filename) == filename = ""

\* the password read, the 403 test and the 400 test on file.filename
PostPassword(p) ==
  /\ req[p].pc = "post_password"
  /\ \E ok \in BOOLEAN :
       LET g == get_ssm_parameter(SSM_PASSWORD_PARAMETER_NAME, ok)
           r == [req[p] EXCEPT !.reads = @ \cup {SSM_PASSWORD_PARAMETER_NAME},
                               !.failed = IF ok THEN @ ELSE @ \cup {SSM_PASSWORD_PARAMETER_NAME}]
       IN IF g.raised
            THEN Finish(p, r, HTTPException(500, "Error communicating with AWS SSM to get"))
          ELSE IF ~PasswordValid(g.value, r.password)
            THEN Finish(p, r, HTTPException(403, "Provided password not valid"))
          ELSE IF EmptyFilename(r.filename)
            THEN Finish(p, r, HTTPException(400, "Filename cannot be empty."))
          ELSE Continue(p, r, "post_lock")
  /\ UNCHANGED <<available, ssm, s3, started, lockWriter>>

\* current_lock_value = get_ssm_parameter(lock); the 409 branch closes the file.
PostLock(p) ==
  /\ req[p].pc = "post_lock"
  /\ \E ok \in BOOLEAN :
       LET g == get_ssm_parameter(SSM_PARAMETER_NAME, ok)
           r == [req[p] EXCEPT !.reads = @ \cup {SSM_PARAMETER_NAME},
                               !.failed = IF ok THEN @ ELSE @ \cup {SSM_PARAMETER_NAME},
                               !.current_lock_value = g.value,
                               !.lock_seen = IF ok THEN lockWriter ELSE @]
       IN IF g.raised
            THEN Finish(p, r, HTTPException(500, "Error communicating with AWS SSM to get"))
          ELSE IF UploadAllowed(g.value)
            THEN Continue(p, r, "post_s3")
          ELSE Finish(p, close(r), HTTPException(409, "Cannot upload: API lock is 'unlocked'"))
  /\ UNCHANGED <<available, ssm, s3, started, lockWriter>>

\* An upload whose put never reaches the bucket.
upload_fileobj_lost(key, content) == s3

\* s3_client.upload_fileobj(file.file, bucket, key): the blob at key is replaced.
upload_fileobj(key, content) == [s3 EXCEPT ![key] = content]

\* the upload of the file under its own name, and the `except ClientError` branch
PostS3(p) ==
  /\ req[p].pc = "post_s3"
  /\ \E ok \in BOOLEAN :
       LET r == [req[p] EXCEPT !.attempted = @ \cup {"s3"},
                               !.wrote = IF ok THEN @ \cup {"s3"} ELSE @,
                               !.failed = IF ok THEN @ ELSE @ \cup {"s3"}]
       IN IF ok
            THEN /\ s3' = upload_fileobj(r.filename, r.content)
                 /\ Continue(p, r, "post_setfilename")
            ELSE /\ s3' = s3
                 /\ Finish(p, close(r), HTTPException(500, "Error uploading file to S3."))
  /\ UNCHANGED <<available, ssm, started, lockWriter>>

\* `if not set_ssm_parameter(filename, file.filename)`
PostSetFilename(p) ==
  /\ req[p].pc = "post_setfilename"
  /\ \E ok \in BOOLEAN :
       LET w == set_ssm_parameter(SSM_FILENAME_PARAMETER_NAME, req[p].filename, ok)
           r == [req[p] EXCEPT !.attempted = @ \cup {SSM_FILENAME_PARAMETER_NAME},
                               !.wrote = IF ok THEN @ \cup {SSM_FILENAME_PARAMETER_NAME} ELSE @,
                               !.failed = IF ok THEN @ ELSE @ \cup {SSM_FILENAME_PARAMETER_NAME}]
       IN /\ ssm' = w.ssm
          /\ IF w.raised
               THEN Finish(p, close(r), HTTPException(500, "Error communicating with AWS SSM to set"))
             ELSE IF ~w.ret
               THEN Finish(p, close(r),
                           HTTPException(500, "File uploaded but failed to update tracking parameter."))
             ELSE Continue(p, r, "post_setlock")
  /\ UNCHANGED <<available, s3, started, lockWriter>>

\* set_ssm_parameter(lock, "unlocked"), its result ignored, and the acknowledgment
PostSetLock(p) ==
  /\ req[p].pc = "post_setlock"
  /\ \E ok \in BOOLEAN :
       LET w == set_ssm_parameter(SSM_PARAMETER_NAME, LOCK_VALUE_UNLOCKED, ok)
           r == [req[p] EXCEPT !.attempted = @ \cup {SSM_PARAMETER_NAME},
                               !.wrote = IF ok THEN @ \cup {SSM_PARAMETER_NAME} ELSE @,
                               !.failed = IF ok THEN @ ELSE @ \cup {SSM_PARAMETER_NAME}]
       IN /\ ssm' = w.ssm
          /\ lockWriter' = IF ok THEN req[p].seq ELSE lockWriter
          /\ IF w.raised
               THEN Finish(p, close(r), HTTPException(500, "Error communicating with AWS SSM to set"))
               ELSE Finish(p, close(r), UploadedResponse)
  /\ UNCHANGED <<available, s3, started>>

upload_file(p) ==
  \/ PostBegin(p)
  \/ PostPassword(p)
  \/ PostLock(p)
  \/ PostS3(p)
  \/ PostSetFilename(p)
  \/ PostSetLock(p)

\* ------------------------------------------------------- specifications
\* Requests served concurrently: any slot may take its next step.
Next == \E p \in Procs : get_file(p) \/ upload_file(p)

Spec == Init /\ [][Next]_vars

\* One user at a time: a request runs to its response before the next starts.
Alone(p) == \A q \in Procs \ {p} : Free(q)

SeqNext == \E p \in Procs : Alone(p) /\ (get_file(p) \/ upload_file(p))

SeqSpec == Init /\ [][SeqNext]_vars


\* ------------------------------------------------------------- requests
Download(p) == req[p].op = "get"
Upload(p) == req[p].op = "post"
Done(p) == req[p].pc = "done"
Authorized(p) == req[p].password = StoredPassword
Status(p) == req[p].response.status

\* ----------------------------------------------------------------- C1
\* C1: once a download by X has returned success, every download that starts
\* afterwards with the correct password, before any upload has succeeded, and
\* whose store calls all answer, fails with 409, names X as the holder and
\* does not write the Lock.  (One request at a time: SeqSpec.)
C1_MutualExclusionInSequence ==
  \A p \in Procs :
    (Download(p) /\ Done(p) /\ Authorized(p) /\ req[p].holder0 # None /\ req[p].failed = {})
      => /\ Status(p) = 409
         /\ req[p].response.lock = req[p].holder0
         /\ SSM_PARAMETER_NAME \notin req[p].attempted

\* ----------------------------------------------------------------- C2
\* C2: when an upload of (F, B) with F non-empty has succeeded, the request
\* that follows it immediately, if it is a download with the correct password
\* whose store calls all answer, returns 200 with body B and filename F.
\* (One request at a time: SeqSpec.)
C2_RoundTrip ==
  \A p, q \in Procs :
    (/\ Upload(q) /\ Done(q) /\ Status(q) = 200 /\ req[q].filename # ""
     /\ Download(p) /\ Done(p) /\ Authorized(p) /\ req[p].failed = {}
     /\ req[p].seq = req[q].seq + 1)
      => /\ Status(p) = 200
         /\ req[p].response.body = req[q].content
         /\ req[p].response.filename = req[q].filename


\* ----------------------------------------------------------------- C3
\* C3: two downloads that both started before any download had returned and
\* both returned the file with success: the Lock is the identity of the one
\* whose put the store accepted last (as long as no later put replaced it).
C3_LastWriterWins ==
  \A p, q \in Procs :
    (/\ p # q
     /\ Download(p) /\ Done(p) /\ Status(p) = 200 /\ req[p].holder0 = None
     /\ Download(q) /\ Done(q) /\ Status(q) = 200 /\ req[q].holder0 = None
     /\ lockWriter = req[q].seq)
      => /\ ssm[SSM_PARAMETER_NAME] = req[q].who_are_you
         /\ req[p].response.body # None
         /\ req[q].response.body # None

\* The race itself: only two requests ever started, alice's and bob's
\* downloads; both read "unlocked", both wrote the Lock, both got the file.
C3_BothDownloaded ==
  \E p, q \in Procs :
    /\ p # q /\ started = 2
    /\ Download(p) /\ Done(p) /\ Status(p) = 200 /\ req[p].who_are_you = "alice"
    /\ Download(q) /\ Done(q) /\ Status(q) = 200 /\ req[q].who_are_you = "bob"
    /\ req[p].current_lock_value = LOCK_VALUE_UNLOCKED
    /\ req[q].current_lock_value = LOCK_VALUE_UNLOCKED
    /\ req[p].wrote = {SSM_PARAMETER_NAME} /\ req[q].wrote = {SSM_PARAMETER_NAME}
    /\ req[p].response.body = "B1" /\ req[q].response.body = "B1"
    /\ lockWriter = req[q].seq /\ ssm[SSM_PARAMETER_NAME] = "bob"

\* ----------------------------------------------------------------- C4
\* C4: the step of an upload that reads Lock == "unlocked" ends the request
\* with 409 and changes neither the parameter store nor the bucket; the
\* request has attempted no write.
C4_UploadGating ==
  [][\A p \in Procs :
       (/\ req[p].pc = "post_lock" /\ req'[p].pc # "post_lock"
        /\ req'[p].current_lock_value = LOCK_VALUE_UNLOCKED)
         => /\ req'[p].pc = "done"
            /\ req'[p].response.status = 409
            /\ ssm' = ssm /\ s3' = s3
            /\ req'[p].attempted = {}]_vars

C4_UploadRefused ==
  \E p \in Procs :
    /\ Upload(p) /\ Done(p) /\ Authorized(p) /\ req[p].filename = "save.dat"
    /\ req[p].current_lock_value = LOCK_VALUE_UNLOCKED
    /\ Status(p) = 409

\* ----------------------------------------------------------------- C5
\* C5: a request, download or upload, whose password differs from the stored
\* one never reads the Lock or the Tracked Filename, never touches the bucket
\* and attempts no write; once its password read has answered it ends with 403.
C5_AuthorizationPrecedence ==
  \A p \in Procs :
    (req[p].op # "none" /\ req[p].password # ssm[SSM_PASSWORD_PARAMETER_NAME])
      => /\ req[p].reads \subseteq {SSM_PASSWORD_PARAMETER_NAME}
         /\ req[p].attempted = {}
         /\ req[p].pc \in {"get_password", "post_password", "done"}
         /\ (Done(p) /\ req[p].reads # {} /\ req[p].failed = {}) => Status(p) = 403

\* An upload with a wrong password and an empty filename, against a Lock that
\* is "unlocked": 403, not 400 and not 409.
C5_WrongPasswordUpload ==
  \E p \in Procs :
    /\ Upload(p) /\ Done(p) /\ ~Authorized(p) /\ req[p].filename = ""
    /\ ssm[SSM_PARAMETER_NAME] = LOCK_VALUE_UNLOCKED
    /\ Status(p) = 403

\* ----------------------------------------------------------------- C6
\* C6: the step of an upload in which the put of the Tracked Filename fails
\* (the blob is already written) ends the request with 500, leaves the
\* parameter store as it was, and the put of the Lock is never attempted.
C6_DriftOnPartialFailure ==
  [][\A p \in Procs :
       (/\ req[p].pc = "post_setfilename" /\ req'[p].pc # "post_setfilename"
        /\ SSM_FILENAME_PARAMETER_NAME \in req'[p].failed)
         => /\ req'[p].pc = "done"
            /\ req'[p].response.status = 500
            /\ ssm' = ssm /\ s3' = s3
            /\ SSM_PARAMETER_NAME \notin req'[p].attempted]_vars

C6_BlobWrittenNotTracked ==
  \E p \in Procs :
    /\ Upload(p) /\ Done(p) /\ Status(p) = 500
    /\ req[p].wrote = {"s3"}
    /\ req[p].attempted = {"s3", SSM_FILENAME_PARAMETER_NAME}
    /\ s3[req[p].filename] = req[p].content
    /\ ssm[SSM_FILENAME_PARAMETER_NAME] # req[p].filename

\* ----------------------------------------------------------------- C7
\* C7: an upload whose blob write and Tracked Filename write succeeded and
\* whose final put of Lock = "unlocked" failed still answers 200.
C7_BestEffortUnlock ==
  \A p \in Procs :
    (/\ Upload(p) /\ Done(p)
     /\ {"s3", SSM_FILENAME_PARAMETER_NAME} \subseteq req[p].wrote
     /\ SSM_PARAMETER_NAME \in req[p].failed)
      => Status(p) = 200

\* ----------------------------------------------------------------- C8
\* C8: the step of a download (which has read Lock == "unlocked") that reads a
\* Tracked Filename that is missing, empty or "init" ends the request with
\* 404, changes no store, and the request never contacted the bucket nor
\* created a staging directory.
C8_SentinelHandling ==
  [][\A p \in Procs :
       (/\ req[p].pc = "get_filename" /\ req'[p].pc # "get_filename"
        /\ SSM_FILENAME_PARAMETER_NAME \notin req'[p].failed
        /\ ssm[SSM_FILENAME_PARAMETER_NAME] \in {None, "", "init"})
         => /\ req[p].current_lock_value = LOCK_VALUE_UNLOCKED
            /\ req'[p].pc = "done"
            /\ req'[p].response.status = 404
            /\ ssm' = ssm /\ s3' = s3
            /\ "s3" \notin req'[p].reads
            /\ req'[p].attempted = {}
            /\ req'[p].temp_dir = "none"]_vars

C8_SentinelRefused ==
  \E p \in Procs :
    /\ Download(p) /\ Done(p) /\ Authorized(p) /\ Status(p) = 404
    /\ req[p].current_lock_value = LOCK_VALUE_UNLOCKED
    /\ req[p].filename_to_download = "init"
    /\ req[p].reads = {SSM_PASSWORD_PARAMETER_NAME, SSM_PARAMETER_NAME, SSM_FILENAME_PARAMETER_NAME}
    /\ req[p].temp_dir = "none"
    /\ ssm[SSM_PARAMETER_NAME] = LOCK_VALUE_UNLOCKED
    /\ ssm[SSM_FILENAME_PARAMETER_NAME] = "init"

\* ----------------------------------------------------------------- C9
\* C9: a download that created its staging directory has its cleanup
\* scheduled when the request ends, whatever the exit path.
C9_StagingCleanup ==
  \A p \in Procs :
    (Download(p) /\ Done(p) /\ req[p].temp_dir # "none") => req[p].temp_dir = "scheduled"

\* ---------------------------------------------------------------- C10
\* C10: an upload request that has ended closed the uploaded file exactly once.
C10_UploadClosedOnce ==
  \A p \in Procs : (Upload(p) /\ Done(p)) => req[p].closes = 1


\* ---------------------------------------------------------------- C11
\* C11: with the Lock parameter absent, the Lock read of a download ends the
\* request with 409 and changes no store; the Lock read of an upload lets it
\* proceed to the blob write; and the final put of such an upload, when the
\* store accepts it, answers 200 and leaves Lock == "unlocked".
C11_MissingLockIsLocked ==
  [][\A p \in Procs :
       /\ (/\ req[p].pc = "get_lock" /\ req'[p].pc # "get_lock"
           /\ SSM_PARAMETER_NAME \notin req'[p].failed
           /\ ssm[SSM_PARAMETER_NAME] = None)
            => /\ req'[p].pc = "done"
               /\ req'[p].response.status = 409
               /\ ssm' = ssm /\ s3' = s3
               /\ req'[p].attempted = {}
       /\ (/\ req[p].pc = "post_lock" /\ req'[p].pc # "post_lock"
           /\ SSM_PARAMETER_NAME \notin req'[p].failed
           /\ ssm[SSM_PARAMETER_NAME] = None)
            => req'[p].pc = "post_s3"
       /\ (/\ req[p].pc = "post_setlock" /\ req'[p].pc # "post_setlock"
           /\ req[p].current_lock_value = None
           /\ SSM_PARAMETER_NAME \notin req'[p].failed)
            => /\ req'[p].response.status = 200
               /\ ssm'[SSM_PARAMETER_NAME] = LOCK_VALUE_UNLOCKED]_vars

\* The Lock was absent from the start: a download was refused with 409 and
\* an upload that read the absent Lock has created it as "unlocked".
C11_LockCreated ==
  \E p, q \in Procs :
    /\ Download(p) /\ Done(p) /\ Authorized(p) /\ Status(p) = 409
    /\ req[p].response.lock = None /\ req[p].failed = {}
    /\ Upload(q) /\ Done(q) /\ Status(q) = 200
    /\ req[q].current_lock_value = None /\ req[q].lock_seen = 0
    /\ req[q].wrote = {"s3", SSM_FILENAME_PARAMETER_NAME, SSM_PARAMETER_NAME}
    /\ ssm[SSM_PARAMETER_NAME] = LOCK_VALUE_UNLOCKED


\* ---------------------------------------------------------------- C12
\* C12: an upload of (F, B) whose three writes were all accepted answers 200,
\* whoever uploads; with one request at a time, when it returns blob[F] == B,
\* Tracked Filename == F and Lock == "unlocked".  (SeqSpec.)
C12_UploadPostcondition ==
  \A p \in Procs :
    (/\ Upload(p) /\ Done(p)
     /\ req[p].wrote = {"s3", SSM_FILENAME_PARAMETER_NAME, SSM_PARAMETER_NAME})
      => /\ Status(p) = 200
         /\ Authorized(p) /\ req[p].filename # ""
         /\ req[p].current_lock_value # LOCK_VALUE_UNLOCKED
         /\ req[p].seq = started
              => /\ s3[req[p].filename] = req[p].content
                 /\ ssm[SSM_FILENAME_PARAMETER_NAME] = req[p].filename
                 /\ ssm[SSM_PARAMETER_NAME] = LOCK_VALUE_UNLOCKED

\* bob uploads while alice holds the Lock, replacing the blob B1 by B2.
C12_UploadedByAnother ==
  \E p \in Procs :
    /\ Upload(p) /\ Done(p) /\ Status(p) = 200 /\ req[p].seq = started
    /\ req[p].who_are_you = "bob" /\ req[p].current_lock_value = "alice"
    /\ req[p].filename = "save.dat" /\ req[p].content = "B2"
    /\ s3["save.dat"] = "B2"
    /\ ssm[SSM_FILENAME_PARAMETER_NAME] = "save.dat"
    /\ ssm[SSM_PARAMETER_NAME] = LOCK_VALUE_UNLOCKED

\* ---------------------------------------------------------------- C13
\* C13: a download by W that read Lock == "unlocked" and a valid Tracked
\* Filename F and none of whose store calls failed (the blob exists) answers
\* 200 with filename F; with one request at a time, when it returns its body
\* is blob[F], Lock == W and Tracked Filename is still F.  (SeqSpec.)
C13_DownloadPostcondition ==
  \A p \in Procs :
    (/\ Download(p) /\ Done(p) /\ Authorized(p)
     /\ req[p].current_lock_value = LOCK_VALUE_UNLOCKED
     /\ ~NoValidFilename(req[p].filename_to_download)
     /\ req[p].failed = {})
      => /\ Status(p) = 200
         /\ req[p].response.filename = req[p].filename_to_download
         /\ req[p].wrote = {SSM_PARAMETER_NAME}
         /\ req[p].seq = started
              => /\ req[p].response.body = s3[req[p].filename_to_download]
                 /\ req[p].response.body # NoSuchKey
                 /\ ssm[SSM_PARAMETER_NAME] = req[p].who_are_you
                 /\ ssm[SSM_FILENAME_PARAMETER_NAME] = req[p].filename_to_download

\* alice downloads save.dat (B1) and holds the Lock.
C13_Downloaded ==
  \E p \in Procs :
    /\ Download(p) /\ Done(p) /\ Status(p) = 200 /\ req[p].seq = started
    /\ req[p].who_are_you = "alice"
    /\ req[p].response.body = "B1" /\ req[p].response.filename = "save.dat"
    /\ ssm[SSM_PARAMETER_NAME] = "alice"
    /\ ssm[SSM_FILENAME_PARAMETER_NAME] = "save.dat"
    /\ s3["save.dat"] = "B1"


\* ---------------------------------------------------------------- C14
\* C14: the step of a download (blob fetched, Lock read as "unlocked") in
\* which the put of the Lock fails ends the request with 500, returns no
\* file, and leaves the parameter store, the Lock included, as it was.
C14_LockWriteFailure ==
  [][\A p \in Procs :
       (/\ req[p].pc = "get_setlock" /\ req'[p].pc # "get_setlock"
        /\ SSM_PARAMETER_NAME \in req'[p].failed)
         => /\ req[p].current_lock_value = LOCK_VALUE_UNLOCKED
            /\ req[p].local_file # None
            /\ req'[p].pc = "done"
            /\ req'[p].response.status = 500
            /\ req'[p].response.body = None
            /\ req'[p].response.filename = None
            /\ ssm' = ssm /\ s3' = s3]_vars

C14_FetchedButNotLocked ==
  \E p \in Procs :
    /\ Download(p) /\ Done(p) /\ Status(p) = 500
    /\ req[p].who_are_you = "alice"
    /\ "s3" \in req[p].reads
    /\ req[p].failed = {SSM_PARAMETER_NAME}
    /\ req[p].attempted = {SSM_PARAMETER_NAME} /\ req[p].wrote = {}
    /\ ssm[SSM_PARAMETER_NAME] = LOCK_VALUE_UNLOCKED

\* ---------------------------------------------------------------- C15
\* C15: the step of a download in which the blob fetch fails ends the request
\* with 404 when the key is not in the bucket and with 500 otherwise; no store
\* changes and the request has attempted no write.
C15_FetchFailure ==
  [][\A p \in Procs :
       (/\ req[p].pc = "get_s3" /\ req'[p].pc # "get_s3"
        /\ "s3" \in req'[p].failed)
         => /\ req'[p].pc = "done"
            /\ req'[p].response.status =
                 (IF s3[req[p].filename_to_download] = NoSuchKey THEN 404 ELSE 500)
            /\ req'[p].response.body = None
            /\ req'[p].attempted = {}
            /\ ssm' = ssm /\ s3' = s3]_vars

\* The tracked blob is not in the bucket: 404 and the Lock is still "unlocked".
C15_BlobNotFound ==
  \E p \in Procs :
    /\ Download(p) /\ Done(p) /\ Status(p) = 404
    /\ req[p].filename_to_download = "save.dat"
    /\ s3["save.dat"] = NoSuchKey
    /\ req[p].failed = {"s3"} /\ req[p].attempted = {}
    /\ ssm[SSM_PARAMETER_NAME] = LOCK_VALUE_UNLOCKED
    /\ ssm[SSM_FILENAME_PARAMETER_NAME] = "save.dat"


\* ---------------------------------------------------------------- C16
\* C16: an upload tests the clients, then the password, then the filename,
\* and only then reads the Lock: an upload that has read the Lock has read a
\* matching password and carries a non-empty filename, and an upload with an
\* empty filename never reads the Lock, attempts no write, and, once the
\* password has been read and matches, is answered 400 whatever the Lock is.
C16_UploadCheckOrder ==
  \A p \in Procs :
    Upload(p) =>
      /\ SSM_PASSWORD_PARAMETER_NAME \in req[p].reads => available
      /\ SSM_PARAMETER_NAME \in req[p].reads =>
           /\ SSM_PASSWORD_PARAMETER_NAME \in req[p].reads
           /\ SSM_PASSWORD_PARAMETER_NAME \notin req[p].failed
           /\ Authorized(p)
           /\ req[p].filename # ""
      /\ req[p].attempted # {} => SSM_PARAMETER_NAME \in req[p].reads
      /\ (req[p].filename = "" /\ Done(p)) =>
           /\ req[p].attempted = {} /\ req[p].wrote = {}
           /\ Status(p) = (IF ~available THEN 503
                           ELSE IF req[p].failed # {} THEN 500
                           ELSE IF ~Authorized(p) THEN 403
                           ELSE 400)

\* An empty filename with the right password is refused while the Lock is held.
C16_EmptyFilenameRefused ==
  \E p \in Procs :
    /\ Upload(p) /\ Done(p) /\ Status(p) = 400
    /\ Authorized(p) /\ req[p].filename = ""
    /\ req[p].reads = {SSM_PASSWORD_PARAMETER_NAME}
    /\ ssm[SSM_PARAMETER_NAME] = "alice"


\* ---------------------------------------------------------------- C17
\* The service started with a Tracked Filename that is the sentinel or names
\* a blob in the bucket.
TrackedInit ==
  /\ Init
  /\ \/ ssm[SSM_FILENAME_PARAMETER_NAME] = "init"
     \/ /\ ssm[SSM_FILENAME_PARAMETER_NAME] \in Keys
        /\ s3[ssm[SSM_FILENAME_PARAMETER_NAME]] # NoSuchKey

TrackedSpec == TrackedInit /\ [][Next]_vars

\* C17: started with a Tracked Filename that is "init" or the key of a blob
\* in the bucket, in every state reachable by interleaved downloads and
\* uploads with any store failures the Tracked Filename is absent, "init", or
\* the key of a blob in the bucket.
C17_TrackedFilenameNeverDangles ==
  \/ ssm[SSM_FILENAME_PARAMETER_NAME] \in {None, "init"}
  \/ /\ ssm[SSM_FILENAME_PARAMETER_NAME] \in Keys
     /\ s3[ssm[SSM_FILENAME_PARAMETER_NAME]] # NoSuchKey

\* Started at the sentinel with an empty bucket, an upload has moved the
\* Tracked Filename to the key it has just written.
C17_TrackedMoved ==
  \E p \in Procs :
    /\ Upload(p)
    /\ SSM_FILENAME_PARAMETER_NAME \in req[p].wrote
    /\ req[p].filename = "save.dat"
    /\ ssm[SSM_FILENAME_PARAMETER_NAME] = "save.dat"
    /\ s3["save.dat"] = req[p].content
    /\ \A q \in Procs \ {p} : ~Upload(q)
    /\ req[p].seq = 1


\* ---------------------------------------------------------------- C18
\* A provisioned start: the Lock is held, or it is "unlocked" and the Tracked
\* Filename names a blob in the bucket.
ReadyInit ==
  /\ Init
  /\ \/ ssm[SSM_PARAMETER_NAME] = "alice"
     \/ /\ ssm[SSM_PARAMETER_NAME] = LOCK_VALUE_UNLOCKED
        /\ ssm[SSM_FILENAME_PARAMETER_NAME] \in Keys \ {"init"}
        /\ s3[ssm[SSM_FILENAME_PARAMETER_NAME]] # NoSuchKey

ReadySeqSpec == ReadyInit /\ [][SeqNext]_vars

\* Every request started so far is still on record and none of them met a
\* store failure.
StoresWorked ==
  /\ Cardinality({q \in Procs : req[q].seq # 0}) = started
  /\ \A q \in Procs : req[q].failed = {}

\* C18: from a provisioned start, one request at a time and with no store
\* failure, a request with the matching password always succeeds when the
\* Lock allows its operation: a download that read the Lock "unlocked" returns
\* the file, an upload (non-empty filename) that read the Lock held is accepted.
C18_NoStuckState ==
  \A p \in Procs :
    (/\ Done(p) /\ Authorized(p) /\ StoresWorked
     /\ SSM_PARAMETER_NAME \in req[p].reads)
      => /\ (Download(p) /\ req[p].current_lock_value = LOCK_VALUE_UNLOCKED)
              => Status(p) = 200
         /\ (Upload(p) /\ req[p].filename # ""
               /\ req[p].current_lock_value # LOCK_VALUE_UNLOCKED)
              => Status(p) = 200


\* ---------------------------------------------------------------- C19
\* Requests served concurrently, one more of them than MaxRequests, from a
\* start where the Tracked Filename names a blob in the bucket.
RaceInit ==
  /\ Init
  /\ ssm[SSM_PARAMETER_NAME] # None
  /\ ssm[SSM_FILENAME_PARAMETER_NAME] = "save.dat"
  /\ s3["save.dat"] # NoSuchKey

RaceNext ==
  \E p \in Procs :
    \/ GetArrives(p, MaxRequests + 1)
    \/ GetPassword(p)
    \/ GetLock(p)
    \/ GetFilename(p)
    \/ GetS3(p)
    \/ GetSetLock(p)
    \/ PostArrives(p, MaxRequests + 1)
    \/ PostPassword(p)
    \/ PostLock(p)
    \/ PostS3(p)
    \/ PostSetFilename(p)
    \/ PostSetLock(p)

RaceSpec == RaceInit /\ [][RaceNext]_vars

\* The step in which the store accepts the final put Lock = "unlocked" of the
\* upload in slot p.
Unlocks(p) ==
  /\ Upload(p)
  /\ req[p].pc = "post_setlock"
  /\ req'[p].pc = "done"
  /\ SSM_PARAMETER_NAME \in req'[p].wrote

\* C19 as stated: the final put of an upload never replaces a Lock that a
\* download, which returned the file, has put after that upload read the Lock.
C19_NoStaleUnlock ==
  [][\A p \in Procs :
       Unlocks(p) =>
         ~ \E q \in Procs \ {p} :
             /\ Download(q) /\ Done(q) /\ Status(q) = 200
             /\ req[q].who_are_you # LOCK_VALUE_UNLOCKED
             /\ lockWriter = req[q].seq
             /\ lockWriter # req[p].lock_seen
             /\ ssm[SSM_PARAMETER_NAME] = req[q].who_are_you]_vars

\* C19, amended: the final put of an upload is unconditional, it leaves the
\* Lock "unlocked" whatever the Lock held; the value it replaces is the one
\* the upload read whenever the store has accepted no put of the Lock since
\* that read.
C19_UnlockReplacesWhatWasRead ==
  [][\A p \in Procs :
       Unlocks(p) =>
         /\ ssm'[SSM_PARAMETER_NAME] = LOCK_VALUE_UNLOCKED
         /\ lockWriter' = req[p].seq
         /\ lockWriter = req[p].lock_seen
              => ssm[SSM_PARAMETER_NAME] = req[p].current_lock_value]_vars

\* A download by W returned the file, an upload that began afterwards read
\* Lock = W and its final put has unlocked it.
C19_UnlockedAfterDownload ==
  \E p, q \in Procs :
    /\ Download(q) /\ Done(q) /\ Status(q) = 200
    /\ Upload(p) /\ Done(p) /\ Status(p) = 200
    /\ req[q].seq < req[p].seq
    /\ req[p].lock_seen = req[q].seq
    /\ req[p].current_lock_value = req[q].who_are_you
    /\ lockWriter = req[p].seq
    /\ ssm[SSM_PARAMETER_NAME] = LOCK_VALUE_UNLOCKED

====
